---- MODULE Spec2Model ----
(***************************************************************************)
(* Model of jni/jni_api.cpp: the JNI binding of the trajectory classifier. *)
(* The state is the global `classifier` pointer and what the last native   *)
(* call did: its return value, the arrays it was given and left behind,    *)
(* the JNI resources it acquired and released, and how it ended.           *)
(*                                                                         *)
(* Floats are small integers.  A pointer is a sequence of length at most   *)
(* one: <<>> is NULL, <<c>> points to the collection c.  The in and out    *)
(* arguments of classifySample may be one and the same Java array, two     *)
(* distinct arrays may lie next to each other in memory, and every array   *)
(* or string argument may be a null reference.  GetStringUTFChars and      *)
(* NewStringUTF, whose results the code never tests, succeed when they     *)
(* are given a string.                                                     *)
(* The engine behind the binding (Classifier, loadModels, cleanUpModels,   *)
(* classifyTrajectory, buildTree) is not part of jni_api.cpp; it is        *)
(* modelled from its documented contract.                                  *)
(***************************************************************************)
EXTENDS Integers, Sequences, FiniteSets

VARIABLES classifier, relCount, last

vars == <<classifier, relCount, last>>

-----------------------------------------------------------------------------
(* Bounds of the model. *)

MaxModels == 4      \* collections hold 0..MaxModels models
MaxIn     == 3      \* the input window holds 0..MaxIn samples
MaxOut    == 4      \* the out array holds 0..MaxOut entries
MaxStart  == 1      \* startIndex ranges over -1..MaxStart
MaxDim    == 2      \* annDist: dim and the array lengths range over 0..MaxDim
MaxGap    == 4      \* float slots of the header of in, between the end of
                    \* out and in[0], 0..MaxGap

(* Classifier::MATCH_STEPS (Classifier.h). *)
MATCH_STEPS == 1

(* Window size declared by every collection of the model files. *)
WindowSize == 5

NULL == <<>>

(* A probability p is the integer p * Scale. *)
Scale == 4

(* Release modes of ReleasePrimitiveArrayCritical. *)
JNI_ABORT == 2              \* free the buffer without copying back
JNI_MODE_0 == 0             \* copy back and free the buffer

(* The caller's arrays before a call: samples are 3 and 4, the out array holds
   7 in every entry (no probability has that value). *)
SampleArray(n) == [i \in 1..n |-> 3 + (i % 2)]
StaleOut(n) == [i \in 1..n |-> 7]
InArrays == {SampleArray(n) : n \in 0..MaxIn}
OutArrays == {StaleOut(n) : n \in 0..MaxOut}
DistArrays == [1..MaxDim -> {3, 4}]

(* The bits of the jfloat k / Scale (0 <= k <= Scale) read as a jint: what an
   array's length word holds after that float was stored over it. *)
RECURSIVE Pow2(_)
Pow2(n) == IF n = 0 THEN 1 ELSE 2 * Pow2(n - 1)

FloatBits(k) ==
    IF k = 0 THEN 0
    ELSE LET n == CHOOSE e \in 0..23 :
                    /\ k * Pow2(e) >= Scale
                    /\ e = 0 \/ k * Pow2(e - 1) < Scale
             num == (k * Pow2(n) - Scale) * Pow2(23)
             q == num \div Scale
             r == num % Scale
             up == IF 2 * r > Scale \/ (2 * r = Scale /\ q % 2 = 1) THEN 1 ELSE 0
         IN  (127 - n) * Pow2(23) + q + up

RECURSIVE SumSeq(_)
SumSeq(s) == IF s = <<>> THEN 0 ELSE s[1] + SumSeq(Tail(s))

-----------------------------------------------------------------------------
(* The engine, from its contract. *)

(* A models file is either corrupt (-1) or holds k models, k in 0..MaxModels. *)
ModelFiles == -1 .. MaxModels

Collection(k) == [M |-> k, W |-> WindowSize, names |-> [i \in 1..k |-> i]]

(* loadModels(path): a successful load replaces the collection, a failed one
   leaves the pointer as it was. *)
LoadOk(file) == file >= 0

LoadModelsEngine(c, file) == IF LoadOk(file) THEN <<Collection(file)>> ELSE c

(* cleanUpModels(): releases the collection once and resets the pointer. *)
cleanUpModelsKeepPointer(c, rc) ==
    IF c = NULL THEN [c |-> c, rc |-> rc]
    ELSE [c |-> c, rc |-> IF rc < 2 THEN rc + 1 ELSE rc]

cleanUpModels(c, rc) ==
    IF c = NULL THEN [c |-> c, rc |-> rc]
    ELSE [c |-> NULL, rc |-> IF rc < 2 THEN rc + 1 ELSE rc]

(* Classifier::getModelNames(): the names joined by a delimiter (0). *)
RECURSIVE JoinNames(_)
JoinNames(names) ==
    IF names = <<>> THEN <<>>
    ELSE IF Len(names) = 1 THEN <<names[1]>>
    ELSE <<names[1], 0>> \o JoinNames(Tail(names))

(* Classifier::classify(): one probability per model, summing to 1, or all
   zero when no model has reference points. *)
ProbVectors(M) ==
    {p \in [1..M -> 0..Scale] : SumSeq(p) = Scale \/ \A i \in 1..M : p[i] = 0}

(* annDist(dim, p, q) of the ANN library: the root of the summed squares. *)
RECURSIVE SumSq(_, _, _)
SumSq(n, p, q) ==
    IF n = 0 THEN 0 ELSE (p[n] - q[n]) * (p[n] - q[n]) + SumSq(n - 1, p, q)

ISqrt(n) == CHOOSE r \in 0..n : r * r <= n /\ (r + 1) * (r + 1) > n

annDistEngine(dim, p, q) == ISqrt(SumSq(dim, p, q))

-----------------------------------------------------------------------------
(* The record of the last native call. *)

Blank ==
    [op |-> "none",          \* the native method
     cPre |-> NULL,          \* classifier when the call began
     relPre |-> 0,           \* relCount when the call began
     result |-> "ok",        \* "ok", "pending" (JNI exception pending),
                             \* "crash", "undefined"
     ret |-> 0,              \* the jint / jfloat returned
     str |-> <<>>,           \* the jstring returned
     deref |-> FALSE,        \* the classifier pointer was dereferenced
     acq |-> <<>>,           \* resources acquired, in order
     rel |-> <<>>,           \* resources released, in order
     inPre |-> <<>>, inPost |-> <<>>,
     inLenPost |-> 0,        \* the length word of the in array afterwards
     outPre |-> <<>>, outPost |-> <<>>,
     start |-> 0,
     M |-> 0,                \* the model count classifySample read
     proj |-> <<>>,          \* the getProjectedData calls, in order
     steps |-> -1,           \* the length handed to classify, -1 if not called
     probs |-> <<>>,         \* the row classify returned
     written |-> {},         \* the indices stored through output (0-based)
     stray |-> FALSE,        \* an access outside an array happened
     phases |-> <<>>,        \* classifyTrajectory: the engine steps run
     loadOk |-> TRUE,        \* classifyTrajectory / loadModels: the load succeeded
     failedAcq |-> "none",   \* the array GetPrimitiveArrayCritical refused
     same |-> FALSE,         \* in and out are the same Java array
     gap |-> -1]             \* where stores past the end of out went: -1
                             \* into neither array, g >= 0 into the in array
                             \* lying g float slots behind the end of out

Fresh(name) ==
    [Blank EXCEPT !.op = name, !.cPre = classifier, !.relPre = relCount]

(* A native method can be entered when the calling Java thread is not inside
   one and the process has not died. *)
Alive == last.op = "none"

(* The native method has returned and Java code runs again. *)
returnToJava ==
    /\ last.op # "none"
    /\ last.result # "crash"
    /\ last' = Blank
    /\ UNCHANGED <<classifier, relCount>>

Init ==
    /\ classifier = NULL
    /\ relCount = 0
    /\ last = Blank

-----------------------------------------------------------------------------
(* JNI helpers. *)

(* ReleasePrimitiveArrayCritical(array, buf, mode): what the Java array holds
   afterwards.  With a direct pointer the buffer is the array; with a copy,
   JNI_ABORT throws the buffer away and mode 0 copies it back. *)
ReleaseCritical(arr, buf, mode, isCopy) ==
    IF isCopy /\ mode = JNI_ABORT THEN arr ELSE buf

(* What reading or writing outside an array can do. *)
UBOutcomes == {"crash", "continue"}

(* What a JNI function does with the reference it is handed.  A null reference
   is outside its contract: the process dies in the JVM, or goes on in an
   undefined state.  GetPrimitiveArrayCritical on an array returns NULL with
   an exception pending, a copy, or a pointer into the array itself. *)
GetOutcomes == {"null", "fails", "copy", "direct"}

NullOutcome(ub) == IF ub = "crash" THEN "crash" ELSE "undefined"

-----------------------------------------------------------------------------
(* annDist, lines 22-41. *)

annDist(dim, p, q, pGet, qGet, ub, garbage) ==
    LET pOk == pGet \in {"copy", "direct"}
        qOk == qGet \in {"copy", "direct"}
        got == (IF pOk THEN << <<"p", 0>> >> ELSE <<>>)
               \o (IF qOk THEN << <<"q", 0>> >> ELSE <<>>)
        oob == dim > Len(p) \/ dim > Len(q)
        base == [Fresh("annDist") EXCEPT !.inPre = p, !.inPost = p,
                                         !.inLenPost = Len(p),
                                         !.outPre = q, !.outPost = q]
    IN  /\ Alive
        /\ UNCHANGED <<classifier, relCount>>
        /\ IF pGet = "null"
           THEN \* line 34
                last' = [base EXCEPT !.result = NullOutcome(ub)]
           ELSE IF qGet = "null"
           THEN \* line 35
                last' = [base EXCEPT !.result = NullOutcome(ub),
                            !.acq = IF pOk THEN << <<"p", 0>> >> ELSE <<>>]
           ELSE IF ~pOk \/ ~qOk
           THEN last' = [base EXCEPT !.result = "pending", !.ret = 0, !.acq = got,
                                     !.failedAcq = IF ~pOk THEN "p" ELSE "q"]
           ELSE IF oob /\ ub = "crash"
           THEN last' = [base EXCEPT !.result = "crash", !.stray = TRUE, !.acq = got]
           ELSE last' = [base EXCEPT
                    !.acq = got,
                    !.ret = IF oob THEN garbage ELSE annDistEngine(dim, p, q),
                    !.stray = oob,
                    !.rel = << <<"p", 0>>, <<"q", 0>> >>]

(* annClose, lines 43-45. *)
annClose ==
    /\ Alive
    /\ UNCHANGED <<classifier, relCount>>
    /\ last' = Fresh("annClose")

(* buildTree, lines 61-67.  isNull: inputFile is a null reference. *)
buildTree(isNull, ub) ==
    /\ Alive
    /\ UNCHANGED <<classifier, relCount>>
    /\ last' = IF isNull
               THEN [Fresh("buildTree") EXCEPT !.result = NullOutcome(ub)]
               ELSE [Fresh("buildTree") EXCEPT !.acq = << <<"str", 0>> >>,
                                               !.rel = << <<"str", 0>> >>]

(* loadModels, lines 69-75.  isNull: modelsFile is a null reference. *)
loadModels(file, isNull, ub) ==
    /\ Alive
    /\ IF isNull
       THEN /\ UNCHANGED <<classifier, relCount>>
            /\ last' = [Fresh("loadModels") EXCEPT !.result = NullOutcome(ub),
                                                   !.loadOk = FALSE]
       ELSE /\ classifier' = LoadModelsEngine(classifier, file)
            /\ relCount' = IF LoadOk(file) THEN 0 ELSE relCount
            /\ last' = [Fresh("loadModels") EXCEPT !.acq = << <<"str", 0>> >>,
                                                   !.rel = << <<"str", 0>> >>,
                                                   !.loadOk = LoadOk(file)]

(* deleteModels, lines 77-79. *)
deleteModels ==
    LET after == cleanUpModels(classifier, relCount)
    IN  /\ Alive
        /\ classifier' = after.c
        /\ relCount' = after.rc
        /\ last' = Fresh("deleteModels")

(* classifyTrajectory, lines 47-59: load, classify, unload, whatever the
   load did.  isNull: one of the three strings is a null reference. *)
classifyTrajectory(file, isNull, ub) ==
    LET loaded == LoadModelsEngine(classifier, file)
        rcLoaded == IF LoadOk(file) THEN 0 ELSE relCount
        after == cleanUpModels(loaded, rcLoaded)
        strs == << <<"str", 0>>, <<"str", 1>>, <<"str", 2>> >>
    IN  /\ Alive
        /\ IF isNull
           THEN /\ UNCHANGED <<classifier, relCount>>
                /\ last' = [Fresh("classifyTrajectory") EXCEPT
                                !.result = NullOutcome(ub), !.loadOk = FALSE]
           ELSE /\ classifier' = after.c
                /\ relCount' = after.rc
                /\ last' = [Fresh("classifyTrajectory") EXCEPT
                                !.acq = strs, !.rel = strs,
                                !.loadOk = LoadOk(file),
                                !.phases = <<"load", "classify", "unload">>]

(* getNumModels, lines 81-86. *)
getNumModelsUnguarded ==
    /\ Alive
    /\ UNCHANGED <<classifier, relCount>>
    /\ last' = IF classifier = NULL
               THEN [Fresh("getNumModels") EXCEPT !.deref = TRUE, !.result = "crash"]
               ELSE [Fresh("getNumModels") EXCEPT !.deref = TRUE,
                                                  !.ret = classifier[1].M]

getNumModels ==
    /\ Alive
    /\ UNCHANGED <<classifier, relCount>>
    /\ last' = IF classifier = NULL
               THEN [Fresh("getNumModels") EXCEPT !.ret = 0]
               ELSE [Fresh("getNumModels") EXCEPT !.deref = TRUE,
                                                  !.ret = classifier[1].M]

(* getWindowSize, lines 88-93. *)
getWindowSizeWrongField ==
    /\ Alive
    /\ UNCHANGED <<classifier, relCount>>
    /\ last' = IF classifier = NULL
               THEN [Fresh("getWindowSize") EXCEPT !.ret = 0]
               ELSE [Fresh("getWindowSize") EXCEPT !.deref = TRUE,
                                                   !.ret = classifier[1].M]

getWindowSize ==
    /\ Alive
    /\ UNCHANGED <<classifier, relCount>>
    /\ last' = IF classifier = NULL
               THEN [Fresh("getWindowSize") EXCEPT !.ret = 0]
               ELSE [Fresh("getWindowSize") EXCEPT !.deref = TRUE,
                                                   !.ret = classifier[1].W]

(* getModelNames, lines 95-108: res is malloc'ed by the classifier and freed
   here. *)
getModelNames ==
    /\ Alive
    /\ UNCHANGED <<classifier, relCount>>
    /\ last' = IF classifier = NULL
               THEN [Fresh("getModelNames") EXCEPT !.str = <<>>]
               ELSE [Fresh("getModelNames") EXCEPT
                        !.deref = TRUE,
                        !.str = JoinNames(classifier[1].names),
                        !.acq = << <<"res", 0>> >>,
                        !.rel = << <<"res", 0>> >>]

-----------------------------------------------------------------------------
(* classifySample, lines 110-148. *)

(* Lines 122-128: one getProjectedData(i, sample+startIndex, MATCH_STEPS+1)
   per model ordinal. *)
ProjectionRequests(M, start) ==
    [k \in 1..M |-> [model |-> k - 1, offset |-> start, len |-> MATCH_STEPS + 1]]

(* getProjectedData reads len samples from the pointer it is given. *)
InBounds(arr, offset, len) == offset >= 0 /\ offset + len <= Len(arr)

(* Line 130: the length handed to classify. *)
ClassifyLength == MATCH_STEPS

(* Where the in array lies relative to the out array: -1 somewhere else, g >= 0
   directly behind it, its header taking the g float slots in between; the
   last of them is the length word of in. *)
Gaps == (-1)..MaxGap

(* Lines 139-146: output[i] = probs[0][i] for i < M, through the pointer to
   out.  A store at i >= length(out) is outside the array.  When the in array
   lies behind out, the store i = length(out) + gap - 1 lands on the length
   word of in and the stores behind it on the entries of in; stores to other
   header words and to memory that is neither array are not followed.  When
   in and out are the same array the stores change that one array. *)
StoreProbs(inBuf, outBuf, probs, M, same, gap) ==
    LET stored == [k \in 1..Len(outBuf) |-> IF k <= M THEN probs[k] ELSE outBuf[k]]
        src(k) == Len(outBuf) + gap + k      \* the 1-based store that hits in[k]
    IN  [in |-> IF same THEN stored
                ELSE IF gap < 0 THEN inBuf
                ELSE [k \in 1..Len(inBuf) |->
                        IF src(k) <= M THEN probs[src(k)] ELSE inBuf[k]],
         inLen |-> IF ~same /\ gap >= 1 /\ src(0) <= M
                   THEN FloatBits(probs[src(0)])
                   ELSE Len(inBuf),
         out |-> stored,
         written |-> 0..(M - 1),
         oob |-> M > Len(outBuf)]

classifySample(in, start, out, same, gap, inGet, outGet, probs, ubRead, ubWrite) ==
    LET base == [Fresh("classifySample") EXCEPT
                    !.inPre = in, !.inPost = in, !.inLenPost = Len(in),
                    !.outPre = out, !.outPost = out,
                    !.start = start, !.deref = TRUE, !.same = same]
    IN
    /\ Alive
    /\ same => (out = in /\ (outGet = "null" => inGet = "null"))
    /\ UNCHANGED <<classifier, relCount>>
    /\ IF classifier = NULL
       THEN \* line 116 dereferences a null pointer
            last' = [base EXCEPT !.result = NullOutcome(ubRead)]
       ELSE
       LET M == classifier[1].M
           reqs == ProjectionRequests(M, start)
           readOob == \E k \in 1..Len(reqs) : ~InBounds(in, reqs[k].offset, reqs[k].len)
           bufs == [k \in 1..Len(reqs) |-> <<"proj", k - 1>>]
           acq1 == << <<"in", 0>>, <<"data", 0>> >> \o bufs \o << <<"probs", 0>> >>
           rel1 == << <<"in", 0>> >> \o bufs \o << <<"data", 0>> >>
           \* a store past the end of a copy of out cannot reach the in array
           where == IF same \/ outGet # "direct" \/ M <= Len(out) THEN -1 ELSE gap
           stored == StoreProbs(in, out, probs, M, same, where)
           classified == [base EXCEPT
                            !.M = M, !.proj = reqs, !.steps = ClassifyLength,
                            !.probs = probs, !.stray = readOob,
                            !.acq = acq1, !.rel = rel1,
                            !.inPost = ReleaseCritical(in, in, JNI_ABORT,
                                                       inGet = "copy")]
       IN
       IF inGet = "null"
       THEN \* line 117 hands a null reference to GetPrimitiveArrayCritical
            last' = [base EXCEPT !.M = M, !.result = NullOutcome(ubRead)]
       ELSE IF inGet = "fails"
       THEN \* line 118
            last' = [base EXCEPT !.M = M, !.result = "pending", !.failedAcq = "in"]
       ELSE IF readOob /\ ubRead = "crash"
       THEN last' = [base EXCEPT !.M = M, !.result = "crash", !.stray = TRUE,
                                 !.acq = << <<"in", 0>>, <<"data", 0>> >>]
       ELSE IF outGet = "null"
       THEN \* line 139 hands a null reference to GetPrimitiveArrayCritical
            last' = [classified EXCEPT !.result = NullOutcome(ubWrite)]
       ELSE IF outGet = "fails"
       THEN \* line 140
            last' = [classified EXCEPT !.result = "pending", !.failedAcq = "out"]
       ELSE IF stored.oob /\ ubWrite = "crash"
       THEN last' = [classified EXCEPT !.result = "crash", !.stray = TRUE,
                                       !.acq = acq1 \o << <<"out", 0>> >>]
       ELSE last' = [classified EXCEPT
                        !.acq = acq1 \o << <<"out", 0>> >>,
                        !.rel = rel1 \o << <<"out", 0>>, <<"probs", 0>> >>,
                        !.inPost = stored.in,
                        !.inLenPost = stored.inLen,
                        !.outPost = ReleaseCritical(out, stored.out, JNI_MODE_0,
                                                    outGet = "copy"),
                        !.written = stored.written,
                        !.stray = readOob \/ stored.oob,
                        !.gap = where]

-----------------------------------------------------------------------------

(* The arguments of a classifySample call: out is the array that is also
   passed as in, or another array that lies as Gaps says. *)
(* What JNI does with in and with out, and what the first access outside an
   array does.  The call does not get to out when in is null or refused, and
   not to a second access when the first one kills the process. *)
GetPairs ==
    {g \in GetOutcomes \X GetOutcomes : g[1] \in {"null", "fails"} => g[2] = g[1]}
UBPairs ==
    {u \in UBOutcomes \X UBOutcomes : u[1] = "crash" => u[2] = "crash"}

(* A native method is entered from Java code; its arguments are chosen
   then. *)
Next ==
    \/ /\ Alive
       /\ \E dim \in 0..(MaxDim + 1), p, q \in DistArrays,
             pGet, qGet \in GetOutcomes, ub \in UBOutcomes, garbage \in {0, 1} :
               annDist(dim, p, q, pGet, qGet, ub, garbage)
    \/ annClose
    \/ \E isNull \in BOOLEAN, ub \in UBOutcomes : buildTree(isNull, ub)
    \/ \E file \in ModelFiles, isNull \in BOOLEAN, ub \in UBOutcomes :
            loadModels(file, isNull, ub)
    \/ deleteModels
    \/ \E file \in ModelFiles, isNull \in BOOLEAN, ub \in UBOutcomes :
            classifyTrajectory(file, isNull, ub)
    \/ getNumModels
    \/ getWindowSize
    \/ getModelNames
    \/ /\ Alive
       /\ LET M == IF classifier = NULL THEN 0 ELSE classifier[1].M
          IN  \E in \in InArrays, start \in (-1)..MaxStart, same \in BOOLEAN,
                 get \in GetPairs, ub \in UBPairs :
                \E out \in (IF same THEN {in} ELSE OutArrays) :
                  \* where in lies matters to a store past the end of out only,
                  \* and the engine answers only a call that acquired in
                  \E gap \in (IF ~same /\ get[2] = "direct" /\ M > Len(out)
                               THEN Gaps ELSE {-1}),
                     probs \in (IF get[1] \in {"null", "fails"}
                                THEN {[i \in 1..M |-> 0]} ELSE ProbVectors(M)) :
                      classifySample(in, start, out, same, gap,
                                     get[1], get[2], probs, ub[1], ub[2])
    \/ returnToJava

Spec == Init /\ [][Next]_vars

-----------------------------------------------------------------------------
(* Properties. *)

Queries == {"getNumModels", "getWindowSize", "getModelNames"}

Returned == last.op # "none" /\ last.result \in {"ok", "pending"}

Count(r, seq) == Cardinality({k \in 1..Len(seq) : seq[k] = r})

AllZero(seq) == \A k \in 1..Len(seq) : seq[k] = 0

(* The probability vector the caller finds in out: its first M entries. *)
ReturnedVector ==
    [k \in 1..(IF last.M <= Len(last.outPost) THEN last.M ELSE Len(last.outPost))
        |-> last.outPost[k]]

(* C1: with no collection loaded, getNumModels and getWindowSize return 0 and
   getModelNames returns the empty string; none of them fails or dereferences
   the classifier, and the classifier stays null. *)
C1_QueriesWhenIdle ==
    (last.op \in Queries /\ last.cPre = NULL) =>
        /\ last.result = "ok"
        /\ last.ret = 0
        /\ last.str = <<>>
        /\ ~last.deref
        /\ classifier = NULL

(* A query answered after a collection was unloaded. *)
C1_Witness ==
    /\ last.op = "getNumModels"
    /\ last.cPre = NULL
    /\ relCount = 1
    /\ last.ret = 0

(* C2: classifySample with no collection loaded ends with NotLoaded, without
   dereferencing the classifier, acquiring an array or writing to out. *)
C2_IdleClassifySampleNotLoaded ==
    (last.op = "classifySample" /\ last.cPre = NULL) =>
        /\ last.result = "NotLoaded"
        /\ ~last.deref
        /\ last.acq = <<>>
        /\ last.outPost = last.outPre

(* C3: a classifyTrajectory that returns ran load, classify, unload in that
   order; when the load failed the classify step did not run; no collection is
   left. *)
C3_NoClassifyAfterFailedLoad ==
    (last.op = "classifyTrajectory" /\ last.result = "ok") =>
        /\ last.phases[1] = "load"
        /\ last.phases[Len(last.phases)] = "unload"
        /\ classifier = NULL
        /\ ~last.loadOk => \A k \in 1..Len(last.phases) : last.phases[k] # "classify"

(* C4 as stated: a loaded collection survives annDist, the three queries,
   classifySample and classifyTrajectory. *)
C4_LoadedUntilDeleteModels ==
    (/\ last.op \in {"annDist", "classifySample", "classifyTrajectory"} \cup Queries
     /\ last.cPre # NULL) =>
        classifier = last.cPre

(* C4 amended: a loaded collection survives annDist, the three queries and
   classifySample, and the queries answer with its model count, its window
   size and its joined names; classifyTrajectory is not among them. *)
C4_LoadedUntilUnload ==
    (/\ last.op \in {"annDist", "classifySample"} \cup Queries
     /\ last.cPre # NULL) =>
        /\ classifier = last.cPre
        /\ last.op = "getNumModels" => last.ret = last.cPre[1].M
        /\ last.op = "getWindowSize" => last.ret = last.cPre[1].W
        /\ last.op = "getModelNames" => last.str = JoinNames(last.cPre[1].names)

(* A classifySample that completed on a loaded collection of MaxModels
   models, which is still loaded. *)
C4_Witness ==
    /\ last.op = "classifySample"
    /\ last.result = "ok"
    /\ last.cPre # NULL
    /\ classifier = last.cPre
    /\ classifier[1].M = MaxModels

(* C5: no collection is released twice, deleteModels leaves no collection,
   and deleteModels with nothing loaded changes nothing and does not fail. *)
C5_UnloadIdempotent ==
    /\ relCount <= 1
    /\ last.op = "deleteModels" =>
        /\ classifier = NULL
        /\ last.result = "ok"
        /\ last.cPre = NULL => relCount = last.relPre

(* deleteModels called when the collection had already been released. *)
C5_Witness ==
    /\ last.op = "deleteModels"
    /\ last.cPre = NULL
    /\ last.relPre = 1
    /\ relCount = 1

(* C6: with a loaded collection of zero models classifySample raises nothing
   of its own: it reads no sample, stores nothing, touches no memory outside
   the arrays, and whenever JNI hands out the arrays it asks for the call
   completes and the probability vector it returns is all zero. *)
C6_EmptyCollectionAllZero ==
    (last.op = "classifySample" /\ last.cPre # NULL /\ last.cPre[1].M = 0) =>
        /\ last.result \notin {"crash", "undefined"}
        /\ ~last.stray
        /\ last.proj = <<>>
        /\ last.written = {}
        /\ last.failedAcq = "none" =>
              /\ last.result = "ok"
              /\ AllZero(last.probs)
              /\ AllZero(ReturnedVector)

(* C7: when out does not have numModels entries, or the window is shorter
   than startIndex + MATCH_STEPS + 1, classifySample reports InvalidArgument,
   reads no sample, writes nothing and stays inside both arrays. *)
C7_LengthsValidated ==
    /\ (last.op = "classifySample" /\ last.cPre # NULL) => ~last.stray
    /\ (/\ last.op = "classifySample"
        /\ last.cPre # NULL
        /\ \/ Len(last.outPre) # last.cPre[1].M
           \/ Len(last.inPre) < last.start + MATCH_STEPS + 1) =>
            /\ last.result = "InvalidArgument"
            /\ last.proj = <<>>
            /\ last.written = {}

(* C8: classifySample leaves the input array as it was, its entries and its
   length. *)
C8_InputUnchanged ==
    (last.op = "classifySample") =>
        /\ last.inPost = last.inPre
        /\ last.inLenPost = Len(last.inPre)

(* C9: a classifySample on a loaded collection of M models projects
   window[startIndex .. startIndex+MATCH_STEPS] once for each model ordinal
   0..M-1, so that every window handed to the classifier has MATCH_STEPS + 1
   samples, and writes exactly M entries to out, entry i being the
   probability of model ordinal i. *)
C9_ProjectsAndWritesM ==
    (last.op = "classifySample" /\ last.cPre # NULL) =>
        /\ last.M = last.cPre[1].M
        /\ Len(last.proj) = last.M
        /\ \A k \in 1..Len(last.proj) :
              last.proj[k] = [model |-> k - 1, offset |-> last.start,
                              len |-> MATCH_STEPS + 1]
        /\ last.written = {i \in 0..MaxModels : i < last.M}
        /\ Len(last.outPost) >= last.M
        /\ \A k \in 1..last.M : last.outPost[k] = last.probs[k]

(* C10: when a native call returns, every resource it acquired has been
   released exactly once. *)
C10_ReleasedExactlyOnce ==
    Returned => \A k \in 1..Len(last.acq) : Count(last.acq[k], last.rel) = 1

====
